---- MODULE Spec2Model ----
(***************************************************************************)
(* Model of backend/app/services/yaml_parser.py (ALWeaver): the document   *)
(* analyzer that splits a docassemble interview into `---`-separated       *)
(* blocks, classifies them, validates the document and infers variables.   *)
(*                                                                         *)
(* Text is a sequence of characters, each character a one-letter string.   *)
(* The only longer atoms are the block texts of BlockText: the code under  *)
(* study never looks inside a block's YAML (it hands the text to           *)
(* ruamel.yaml), so a block text is one opaque token to strip() and        *)
(* splitlines(): not blank, without a line break, and neither `-` nor `#`. *)
(* What ruamel.yaml decodes it to is an input, the variable `decoded`.     *)
(***************************************************************************)
EXTENDS Integers, Sequences, FiniteSets, TLC

VARIABLES
    document,   \* the document text handed to an entry point
    other,      \* a second document text (concatenation of two documents)
    decoded,    \* what ruamel.yaml decodes each block text of the document to
    linter,     \* what the optional dayamlchecker module does in this run
    pc,         \* "start", or the entry point that has been called
    result      \* what the call returned, or the exception it raised

vars == <<document, other, decoded, linter, pc, result>>

(***************************************************************************)
(* str methods                                                             *)
(***************************************************************************)

\* Characters str.strip() removes and str.splitlines() breaks lines at.
Whitespace == {" ", "\n", "\t"}

LineBreaks == {"\n"}

RECURSIVE LStrip(_)
LStrip(s) ==
    IF s = <<>> THEN <<>>
    ELSE IF Head(s) \in Whitespace THEN LStrip(Tail(s))
    ELSE s

RECURSIVE RStrip(_)
RStrip(s) ==
    IF s = <<>> THEN <<>>
    ELSE IF s[Len(s)] \in Whitespace THEN RStrip(SubSeq(s, 1, Len(s) - 1))
    ELSE s

\* str.strip()
Strip(s) == RStrip(LStrip(s))

\* str.splitlines(): a line ends at a line break or at the end of the text;
\* a text ending in a line break has no empty last line.
RECURSIVE SplitLinesFrom(_, _, _, _)
SplitLinesFrom(s, i, cur, acc) ==
    IF i > Len(s) THEN (IF cur = <<>> /\ (i = 1 \/ s[i - 1] \in LineBreaks)
                        THEN acc ELSE Append(acc, cur))
    ELSE IF s[i] \in LineBreaks THEN SplitLinesFrom(s, i + 1, <<>>, Append(acc, cur))
    ELSE SplitLinesFrom(s, i + 1, Append(cur, s[i]), acc)

SplitLines(s) == SplitLinesFrom(s, 1, <<>>, <<>>)

\* '\n'.join(lines)
RECURSIVE JoinLines(_)
JoinLines(lines) ==
    IF lines = <<>> THEN <<>>
    ELSE IF Len(lines) = 1 THEN lines[1]
    ELSE lines[1] \o <<"\n">> \o JoinLines(Tail(lines))

UpperCase ==
    << "A", "B", "C", "D", "E", "F", "G", "H", "I", "J", "K", "L", "M",
       "N", "O", "P", "Q", "R", "S", "T", "U", "V", "W", "X", "Y", "Z" >>

LowerCase ==
    << "a", "b", "c", "d", "e", "f", "g", "h", "i", "j", "k", "l", "m",
       "n", "o", "p", "q", "r", "s", "t", "u", "v", "w", "x", "y", "z" >>

LowerChar(c) ==
    IF \E i \in DOMAIN UpperCase : UpperCase[i] = c
    THEN LowerCase[CHOOSE i \in DOMAIN UpperCase : UpperCase[i] = c]
    ELSE c

\* str.lower()
Lower(s) == [i \in DOMAIN s |-> LowerChar(s[i])]

\* sub in s, for two strings
Substring(sub, s) ==
    \E i \in 0..(Len(s) - Len(sub)) : SubSeq(s, i + 1, i + Len(sub)) = sub

\* s.startswith(prefix)
StartsWith(s, prefix) ==
    Len(s) >= Len(prefix) /\ SubSeq(s, 1, Len(prefix)) = prefix

\* The characters of the string literals of the source.
Chars(name) ==
    CASE name = "question" -> <<"q", "u", "e", "s", "t", "i", "o", "n">>
      [] name = "code" -> <<"c", "o", "d", "e">>
      [] name = "objects" -> <<"o", "b", "j", "e", "c", "t", "s">>
      [] name = "features" -> <<"f", "e", "a", "t", "u", "r", "e", "s">>
      [] name = "auto terms" -> <<"a", "u", "t", "o", " ", "t", "e", "r", "m", "s">>
      [] name = "template" -> <<"t", "e", "m", "p", "l", "a", "t", "e">>
      [] name = "attachment" -> <<"a", "t", "t", "a", "c", "h", "m", "e", "n", "t">>
      [] name = "attachments" -> <<"a", "t", "t", "a", "c", "h", "m", "e", "n", "t", "s">>
      [] name = "table" -> <<"t", "a", "b", "l", "e">>
      [] name = "translations" -> <<"t", "r", "a", "n", "s", "l", "a", "t", "i", "o", "n", "s">>
      [] name = "include" -> <<"i", "n", "c", "l", "u", "d", "e">>
      [] name = "default screen parts" -> <<"d", "e", "f", "a", "u", "l", "t", " ", "s", "c", "r", "e", "e", "n", " ", "p", "a", "r", "t", "s">>
      [] name = "metadata" -> <<"m", "e", "t", "a", "d", "a", "t", "a">>
      [] name = "modules" -> <<"m", "o", "d", "u", "l", "e", "s">>
      [] name = "imports" -> <<"i", "m", "p", "o", "r", "t", "s">>
      [] name = "sections" -> <<"s", "e", "c", "t", "i", "o", "n", "s">>
      [] name = "interview help" -> <<"i", "n", "t", "e", "r", "v", "i", "e", "w", " ", "h", "e", "l", "p">>
      [] name = "def" -> <<"d", "e", "f">>
      [] name = "default validation messages" -> <<"d", "e", "f", "a", "u", "l", "t", " ", "v", "a", "l", "i", "d", "a", "t", "i", "o", "n", " ", "m", "e", "s", "s", "a", "g", "e", "s">>
      [] name = "machine learning storage" -> <<"m", "a", "c", "h", "i", "n", "e", " ", "l", "e", "a", "r", "n", "i", "n", "g", " ", "s", "t", "o", "r", "a", "g", "e">>
      [] name = "initial" -> <<"i", "n", "i", "t", "i", "a", "l">>
      [] name = "event" -> <<"e", "v", "e", "n", "t">>
      [] name = "comment" -> <<"c", "o", "m", "m", "e", "n", "t">>
      [] name = "variable name" -> <<"v", "a", "r", "i", "a", "b", "l", "e", " ", "n", "a", "m", "e">>
      [] name = "data" -> <<"d", "a", "t", "a">>
      [] name = "data from code" -> <<"d", "a", "t", "a", " ", "f", "r", "o", "m", " ", "c", "o", "d", "e">>
      [] name = "reset" -> <<"r", "e", "s", "e", "t">>
      [] name = "on change" -> <<"o", "n", " ", "c", "h", "a", "n", "g", "e">>
      [] name = "image sets" -> <<"i", "m", "a", "g", "e", " ", "s", "e", "t", "s">>
      [] name = "images" -> <<"i", "m", "a", "g", "e", "s">>
      [] name = "order" -> <<"o", "r", "d", "e", "r">>
      [] name = "fields" -> <<"f", "i", "e", "l", "d", "s">>
      [] name = "text" -> <<"t", "e", "x", "t">>
      [] name = "area" -> <<"a", "r", "e", "a">>
      [] name = "password" -> <<"p", "a", "s", "s", "w", "o", "r", "d">>
      [] name = "email" -> <<"e", "m", "a", "i", "l">>
      [] name = "date" -> <<"d", "a", "t", "e">>
      [] name = "datetime" -> <<"d", "a", "t", "e", "t", "i", "m", "e">>
      [] name = "time" -> <<"t", "i", "m", "e">>
      [] name = "integer" -> <<"i", "n", "t", "e", "g", "e", "r">>
      [] name = "number" -> <<"n", "u", "m", "b", "e", "r">>
      [] name = "currency" -> <<"c", "u", "r", "r", "e", "n", "c", "y">>
      [] name = "boolean" -> <<"b", "o", "o", "l", "e", "a", "n">>
      [] name = "yesno" -> <<"y", "e", "s", "n", "o">>
      [] name = "noyes" -> <<"n", "o", "y", "e", "s">>
      [] name = "range" -> <<"r", "a", "n", "g", "e">>
      [] name = "object" -> <<"o", "b", "j", "e", "c", "t">>
      [] name = "choices" -> <<"c", "h", "o", "i", "c", "e", "s">>
      [] name = "dropdown" -> <<"d", "r", "o", "p", "d", "o", "w", "n">>
      [] name = "multiselect" -> <<"m", "u", "l", "t", "i", "s", "e", "l", "e", "c", "t">>
      [] name = "combobox" -> <<"c", "o", "m", "b", "o", "b", "o", "x">>
      [] name = "file" -> <<"f", "i", "l", "e">>
      [] name = "files" -> <<"f", "i", "l", "e", "s">>
      [] name = "interview order" -> <<"i", "n", "t", "e", "r", "v", "i", "e", "w", " ", "o", "r", "d", "e", "r">>
      [] name = "interview_order" -> <<"i", "n", "t", "e", "r", "v", "i", "e", "w", "_", "o", "r", "d", "e", "r">>
      [] name = "main_order" -> <<"m", "a", "i", "n", "_", "o", "r", "d", "e", "r">>
      [] name = "interview" -> <<"i", "n", "t", "e", "r", "v", "i", "e", "w">>
      [] name = "true" -> <<"t", "r", "u", "e">>
      [] name = "yes" -> <<"y", "e", "s">>
      [] name = "1" -> <<"1">>
      [] name = "on" -> <<"o", "n">>
      [] name = "Interview Order" -> <<"I", "n", "t", "e", "r", "v", "i", "e", "w", " ", "O", "r", "d", "e", "r">>

\* The order of the code points of the characters names are written with.
CodePoints ==
    << "\t", "\n", " ", "#", "'", "(", ")", "-", "0", "1", "2", "3", "4", "5",
       "6", "7", "8", "9", "=" >> \o UpperCase \o << "[", "]", "_" >> \o LowerCase
       \o << "{", "}" >>

Ord(c) == CHOOSE i \in DOMAIN CodePoints : CodePoints[i] = c

\* a < b, for two strings
RECURSIVE StrLess(_, _)
StrLess(a, b) ==
    IF b = <<>> THEN FALSE
    ELSE IF a = <<>> THEN TRUE
    ELSE IF Head(a) = Head(b) THEN StrLess(Tail(a), Tail(b))
    ELSE Ord(Head(a)) < Ord(Head(b))

(***************************************************************************)
(* Decoded values and the Python operations the code applies to them       *)
(***************************************************************************)

Null == [kind |-> "null"]
Bool(b) == [kind |-> "bool", b |-> b]
Number(n) == [kind |-> "number", n |-> n]
Str(s) == [kind |-> "str", s |-> s]
List(items) == [kind |-> "list", items |-> items]
\* A mapping keeps its keys in the order they were written.
Map(keys, vals) == [kind |-> "map", keys |-> keys, vals |-> vals]
EmptyMap == Map(<<>>, <<>>)
\* The text is not valid YAML: yaml.load raises YAMLError.
YamlError == [kind |-> "error"]

Returned(v) == [status |-> "returned", value |-> v]
Raised(e) == [status |-> "raised", exc |-> e]
RaisedAt(e, position) == [status |-> "raised", exc |-> e, position |-> position]

\* bool(value)
Truthy(v) ==
    CASE v.kind = "null" -> FALSE
      [] v.kind = "bool" -> v.b
      [] v.kind = "number" -> v.n # 0
      [] v.kind = "str" -> v.s # <<>>
      [] v.kind = "list" -> v.items # <<>>
      [] v.kind = "map" -> v.keys # <<>>

\* value or {}
OrEmpty(v) == IF Truthy(v) THEN v ELSE EmptyMap

HasKey(m, key) == \E i \in DOMAIN m.keys : m.keys[i] = key

\* m[key], for a key of the mapping
Item(m, key) == m.vals[CHOOSE i \in DOMAIN m.keys : m.keys[i] = key]

\* m.get(key, default)
GetOr(m, key, default) == IF HasKey(m, key) THEN Item(m, key) ELSE default

\* m.get(key)
Get(m, key) == GetOr(m, key, Null)

\* Whether `name in container` evaluates at all: it raises TypeError for a
\* number or a boolean.
Iterable(v) == v.kind \in {"map", "str", "list"}

\* name in container: a key of a mapping, a substring of a string, an item
\* of a list.
PyIn(name, container) ==
    CASE container.kind = "map" -> HasKey(container, name)
      [] container.kind = "str" -> Substring(Chars(name), container.s)
      [] container.kind = "list" ->
            \E i \in DOMAIN container.items : container.items[i] = Str(Chars(name))

Digits == <<"0", "1", "2", "3", "4", "5", "6", "7", "8", "9">>

RECURSIVE NatText(_)
NatText(n) ==
    IF n < 10 THEN <<Digits[n + 1]>>
    ELSE Append(NatText(n \div 10), Digits[(n % 10) + 1])

\* str(value), as an f-string formats it
PyStr(v) ==
    CASE v.kind = "str" -> v.s
      [] v.kind = "null" -> <<"N", "o", "n", "e">>
      [] v.kind = "bool" -> IF v.b THEN <<"T", "r", "u", "e">>
                            ELSE <<"F", "a", "l", "s", "e">>
      [] v.kind = "number" -> IF v.n < 0 THEN <<"-">> \o NatText(0 - v.n)
                           ELSE NatText(v.n)

\* The separator the splitter compares a stripped line with.
SEPARATOR == <<"-", "-", "-">>

(***************************************************************************)
(* Block Splitter                                                          *)
(***************************************************************************)

\* A splitter that emits the empty segments too.
RECURSIVE SplitLoopKeepEmpty(_, _, _, _)
SplitLoopKeepEmpty(lines, i, buffer, parts) ==
    IF i > Len(lines)
    THEN Append(parts, Strip(JoinLines(buffer)))
    ELSE IF Strip(lines[i]) = SEPARATOR
         THEN SplitLoopKeepEmpty(lines, i + 1, <<>>, Append(parts, Strip(JoinLines(buffer))))
         ELSE SplitLoopKeepEmpty(lines, i + 1, Append(buffer, lines[i]), parts)

\* The loop of _split_blocks and its flush of the tail.
RECURSIVE SplitLoop(_, _, _, _)
SplitLoop(lines, i, buffer, parts) ==
    IF i > Len(lines)
    THEN LET tail == Strip(JoinLines(buffer))
         IN  IF tail # <<>> THEN Append(parts, tail) ELSE parts
    ELSE IF Strip(lines[i]) = SEPARATOR
         THEN LET part == Strip(JoinLines(buffer))
              IN  SplitLoop(lines, i + 1, <<>>,
                            IF part # <<>> THEN Append(parts, part) ELSE parts)
         ELSE SplitLoop(lines, i + 1, Append(buffer, lines[i]), parts)

_split_blocks(doc) ==
    LET cleaned == Strip(doc)
    IN  IF cleaned = <<>> THEN <<>>
        ELSE SplitLoop(SplitLines(cleaned), 1, <<>>, <<>>)

(***************************************************************************)
(* Segment Decoder                                                         *)
(***************************************************************************)

\* The texts of the blocks of a document, one opaque token each.
BlockText == <<"block-1", "block-2", "block-3", "block-4", "block-5", "block-6">>

\* yaml.load(chunk): the decoding of the chunk's block text, YamlError when
\* ruamel.yaml raises.
YamlLoad(chunk) ==
    decoded[CHOOSE i \in DOMAIN decoded : chunk = <<BlockText[i]>>]

(***************************************************************************)
(* Block Classifier and Order Extractor                                    *)
(***************************************************************************)

BLOCK_TYPES ==
    << "question",
       "code",
       "objects",
       "features",
       "auto terms",
       "template",
       "attachment",
       "attachments",
       "table",
       "translations",
       "include",
       "default screen parts",
       "metadata",
       "modules",
       "imports",
       "sections",
       "interview help",
       "def",
       "default validation messages",
       "machine learning storage",
       "initial",
       "event",
       "comment",
       "variable name",
       "data",
       "data from code",
       "reset",
       "on change",
       "image sets",
       "images",
       "order" >>

IsBlockType(t) == \E i \in DOMAIN BLOCK_TYPES : BLOCK_TYPES[i] = t

\* LANGUAGE_MAP.get(block_type, 'yaml')
LANGUAGE_MAP(block_type) ==
    CASE block_type = "code" -> "python"
      [] block_type = "def" -> "markdown"
      [] OTHER -> "yaml"

_coerce_bool(value) ==
    IF value.kind = "bool" THEN value.b
    ELSE IF value.kind = "str"
         THEN LET normalized == Lower(Strip(value.s))
              IN  normalized \in {Chars("true"), Chars("yes"), Chars("1"), Chars("on")}
    ELSE IF value.kind = "number" THEN value.n # 0
    ELSE FALSE

\* A classifier that lets the block's own key order decide: the first key
\* of the block that is in the vocabulary.
RECURSIVE FirstKeyInVocabulary(_, _)
FirstKeyInVocabulary(block, i) ==
    IF block.kind # "map" \/ i > Len(block.keys) THEN "code"
    ELSE IF IsBlockType(block.keys[i]) THEN block.keys[i]
    ELSE FirstKeyInVocabulary(block, i + 1)

GuessByKeyOrder(block) ==
    IF ~Iterable(block) THEN Raised("TypeError")
    ELSE Returned(FirstKeyInVocabulary(block, 1))

\* The loop of _guess_block_type over BLOCK_TYPES, then its fallbacks.
RECURSIVE FirstCandidate(_, _)
FirstCandidate(block, i) ==
    IF i > Len(BLOCK_TYPES)
    THEN IF PyIn("question", block) THEN "question" ELSE "code"
    ELSE IF PyIn(BLOCK_TYPES[i], block) THEN BLOCK_TYPES[i]
    ELSE FirstCandidate(block, i + 1)

\* A classifier whose fallback is a type outside the vocabulary.
GuessOrUnknown(block) ==
    IF ~Iterable(block) THEN Raised("TypeError")
    ELSE IF \E i \in DOMAIN BLOCK_TYPES : PyIn(BLOCK_TYPES[i], block)
         THEN Returned(FirstCandidate(block, 1))
         ELSE Returned("unknown")

\* `candidate in data` raises TypeError when data is a number or a boolean.
_guess_block_type(block) ==
    IF ~Iterable(block) THEN Raised("TypeError")
    ELSE Returned(FirstCandidate(block, 1))

\* The first index from p on that holds no whitespace (Len(s) + 1 if none).
RECURSIVE SkipWhitespace(_, _)
SkipWhitespace(s, p) ==
    IF p > Len(s) THEN Len(s) + 1
    ELSE IF s[p] \in Whitespace THEN SkipWhitespace(s, p + 1)
    ELSE p

LiteralAt(s, p, literal) ==
    /\ p + Len(literal) - 1 <= Len(s)
    /\ Lower(SubSeq(s, p, p + Len(literal) - 1)) = literal

\* re.search(r'#+\s*interview\s+order\s*#+', s, re.IGNORECASE)
OrderCommentIn(s) ==
    \E i \in DOMAIN s :
        /\ s[i] = "#"
        /\ LET j == SkipWhitespace(s, i + 1)
               k == SkipWhitespace(s, j + Len(Chars("interview")))
               l == SkipWhitespace(s, k + Len(Chars("order")))
           IN  /\ LiteralAt(s, j, Chars("interview"))
               /\ k > j + Len(Chars("interview"))
               /\ LiteralAt(s, k, Chars("order"))
               /\ l <= Len(s)
               /\ s[l] = "#"

\* The number of characters of a code block's first line its label keeps.
LabelWidth == 24

Take(s, n) == SubSeq(s, 1, IF Len(s) < n THEN Len(s) ELSE n)

InterviewOrderLabel == Str(Chars("Interview Order"))

\* The code-block heuristics of _label_for_block: the id and the comments.
CodeBlockIsOrder(block, raw_chunk) ==
    LET block_id == GetOr(block, "id", Str(<<>>))
        code_content == GetOr(block, "code", Str(<<>>))
        id_normalized == IF Truthy(block_id) THEN Strip(Lower(PyStr(block_id)))
                         ELSE <<>>
    IN  \/ id_normalized = Chars("interview order")
        \/ id_normalized = Chars("interview_order")
        \/ Substring(Chars("interview_order"), id_normalized)
        \/ id_normalized = Chars("main_order")
        \/ Substring(Chars("main_order"), id_normalized)
        \/ OrderCommentIn(raw_chunk)
        \/ (code_content.kind = "str" /\ OrderCommentIn(code_content.s))

\* The label of a payload's field: f"{payload.get(name)}" if it is truthy.
\* payload.get raises AttributeError when the payload is not a mapping.
FieldLabel(payload, name) ==
    IF payload.kind # "map" THEN Raised("AttributeError")
    ELSE IF Truthy(Get(payload, name)) THEN Returned(Str(PyStr(Get(payload, name))))
    ELSE Returned(Null)

\* data.get raises AttributeError when the decoded segment is not a mapping.
_label_for_block(block_type, block, raw_chunk) ==
    IF block.kind # "map" THEN Raised("AttributeError")
    ELSE IF Get(block, "interview_order").kind = "map" THEN Returned(InterviewOrderLabel)
    ELSE IF block_type = "code" /\ CodeBlockIsOrder(block, raw_chunk)
         THEN Returned(InterviewOrderLabel)
    ELSE IF block_type = "metadata"
         THEN FieldLabel(OrEmpty(Get(block, "metadata")), "title")
    ELSE IF block_type = "question"
         THEN LET question == Get(block, "question")
              IN  IF question.kind # "str" THEN Returned(Null)
                  ELSE IF SplitLines(question.s) = <<>> THEN Raised("IndexError")
                  ELSE Returned(Str(SplitLines(question.s)[1]))
    ELSE IF block_type = "code"
         THEN LET code == Get(block, "code")
              IN  IF code.kind = "str" /\ code.s # <<>>
                  THEN Returned(Str(Take(SplitLines(code.s)[1], LabelWidth)))
                  ELSE Returned(Null)
    ELSE IF block_type = "attachment"
         THEN FieldLabel(OrEmpty(Get(block, "attachment")), "name")
    ELSE IF block_type = "event"
         THEN FieldLabel(block, "event")
    ELSE Returned(Null)

\* An extractor that drops a step it has already listed.
RECURSIVE OrderLinesOnce(_, _, _)
OrderLinesOnce(lines, i, items) ==
    IF i > Len(lines) THEN items
    ELSE LET line == Strip(lines[i])
         IN  IF line # <<>> /\ ~StartsWith(line, <<"#">>)
                /\ ~(\E j \in DOMAIN items : items[j] = line)
             THEN OrderLinesOnce(lines, i + 1, Append(items, line))
             ELSE OrderLinesOnce(lines, i + 1, items)

\* The comprehension of _order_items_from_code.
RECURSIVE OrderLines(_, _, _)
OrderLines(lines, i, items) ==
    IF i > Len(lines) THEN items
    ELSE LET line == Strip(lines[i])
         IN  IF line # <<>> /\ ~StartsWith(line, <<"#">>)
             THEN OrderLines(lines, i + 1, Append(items, line))
             ELSE OrderLines(lines, i + 1, items)

\* code is a string or None.
_order_items_from_code(code) ==
    IF ~Truthy(code) THEN <<>>
    ELSE OrderLines(SplitLines(code.s), 1, <<>>)

(***************************************************************************)
(* analyze_blocks                                                          *)
(***************************************************************************)

BlockAnalysis(block_type, label, position, order_items, is_mandatory) ==
    [ id |-> <<block_type, "-", position>>,
      type |-> block_type,
      label |-> label,
      language |-> LANGUAGE_MAP(block_type),
      position |-> position,
      order_items |-> order_items,
      is_mandatory |-> is_mandatory ]

\* The body of the loop of analyze_blocks after the chunk is decoded.
AnalyzeData(position, chunk, block) ==
    LET block_type == _guess_block_type(block)
    IN  IF block_type.status = "raised" THEN block_type
        ELSE LET label == _label_for_block(block_type.value, block, chunk)
                 interview_order_payload == Get(block, "interview_order")
             IN  IF label.status = "raised" THEN label
                 ELSE IF interview_order_payload.kind = "map"
                 THEN LET code_value == Get(interview_order_payload, "code")
                          code == IF code_value.kind = "str" THEN code_value ELSE Null
                      IN  Returned(BlockAnalysis(
                              block_type.value, label.value, position,
                              _order_items_from_code(code),
                              _coerce_bool(Get(interview_order_payload, "mandatory"))))
                 ELSE Returned(BlockAnalysis(
                          block_type.value, label.value, position, <<>>,
                          _coerce_bool(Get(block, "mandatory"))))

\* A loop that numbers the analyses from one.
RECURSIVE AnalyzeLoopFromOne(_, _, _)
AnalyzeLoopFromOne(chunks, i, analyses) ==
    IF i > Len(chunks) THEN Returned(analyses)
    ELSE LET loaded == YamlLoad(chunks[i])
         IN  IF loaded.kind = "error" THEN RaisedAt("ValueError", i)
             ELSE LET analysis == AnalyzeData(i, chunks[i], OrEmpty(loaded))
                  IN  IF analysis.status = "raised" THEN analysis
                      ELSE AnalyzeLoopFromOne(chunks, i + 1,
                                              Append(analyses, analysis.value))

\* The loop of analyze_blocks: chunk i of the list is at position i - 1.
\* A YAMLError becomes the ValueError that names the position; any other
\* exception leaves analyze_blocks as it is.
RECURSIVE AnalyzeLoop(_, _, _)
AnalyzeLoop(chunks, i, analyses) ==
    IF i > Len(chunks) THEN Returned(analyses)
    ELSE LET position == i - 1
             loaded == YamlLoad(chunks[i])
         IN  IF loaded.kind = "error" THEN RaisedAt("ValueError", position)
             ELSE LET analysis == AnalyzeData(position, chunks[i], OrEmpty(loaded))
                  IN  IF analysis.status = "raised" THEN analysis
                      ELSE AnalyzeLoop(chunks, i + 1, Append(analyses, analysis.value))

analyze_blocks(doc) == AnalyzeLoop(_split_blocks(doc), 1, <<>>)

(***************************************************************************)
(* validate_document                                                       *)
(***************************************************************************)

Issue(text) == [text |-> text]
IssueAt(text, position) == [text |-> text, position |-> position]
IssueOfType(text, block_type, position) ==
    [text |-> text, type |-> block_type, position |-> position]

DuplicateMandatory == Issue("Only one mandatory interview_order block is allowed.")
LinterFailed == Issue("dayamlchecker validation failed")

\* A linter phase that keeps silent when find_errors raises.
LinterIssuesSilent(lint) ==
    IF lint.mode = "returns" THEN lint.errors ELSE <<>>

\* The linter phase of validate_document. The dayamlchecker module is
\* absent (the import raises), or its find_errors returns a list of
\* errors, or it raises.
LinterIssues(lint) ==
    CASE lint.mode = "absent" -> <<>>
      [] lint.mode = "returns" -> lint.errors
      [] lint.mode = "raises" -> <<LinterFailed>>

RECURSIVE UnsupportedIssues(_, _)
UnsupportedIssues(blocks, i) ==
    IF i > Len(blocks) THEN <<>>
    ELSE (IF ~IsBlockType(blocks[i].type)
          THEN <<IssueOfType("Unsupported block type", blocks[i].type,
                             blocks[i].position)>>
          ELSE <<>>) \o UnsupportedIssues(blocks, i + 1)

\* The second loop of validate_document, over the chunks decoded again.
\* `'interview_order' in data` raises TypeError for a number,
\* data['interview_order'] raises TypeError unless data is a mapping, and
\* metadata.get raises AttributeError unless metadata is a mapping.
RECURSIVE MandatoryLoop(_, _, _, _)
MandatoryLoop(chunks, i, seen_mandatory, issues) ==
    IF i > Len(chunks) THEN Returned(issues)
    ELSE LET loaded == YamlLoad(chunks[i])
             block == OrEmpty(loaded)
         IN  IF loaded.kind = "error"
             THEN MandatoryLoop(chunks, i + 1, seen_mandatory,
                                Append(issues, Issue("Invalid YAML block")))
             ELSE IF ~Iterable(block) THEN Raised("TypeError")
             ELSE IF ~PyIn("interview_order", block)
             THEN MandatoryLoop(chunks, i + 1, seen_mandatory, issues)
             ELSE IF block.kind # "map" THEN Raised("TypeError")
             ELSE LET metadata == OrEmpty(Item(block, "interview_order"))
                  IN  IF metadata.kind # "map" THEN Raised("AttributeError")
                      ELSE LET mandatory_flag == _coerce_bool(Get(metadata, "mandatory"))
                           IN  MandatoryLoop(
                                   chunks, i + 1, seen_mandatory \/ mandatory_flag,
                                   IF mandatory_flag /\ seen_mandatory
                                   THEN Append(issues, DuplicateMandatory)
                                   ELSE issues)

\* The checks of validate_document after the linter phase: analyze_blocks,
\* whose ValueError ends the call with one more issue, then the two loops.
\* An exception that is no ValueError leaves validate_document.
StructuralChecks(doc, issues) ==
    LET blocks == analyze_blocks(doc)
    IN  IF blocks.status = "raised"
        THEN IF blocks.exc = "ValueError"
             THEN Returned(Append(issues,
                      IssueAt("Failed to parse YAML segment at index", blocks.position)))
             ELSE Raised(blocks.exc)
        ELSE MandatoryLoop(_split_blocks(doc), 1, FALSE,
                           issues \o UnsupportedIssues(blocks.value, 1))

validate_document(doc, lint) == StructuralChecks(doc, LinterIssues(lint))

(***************************************************************************)
(* Variable Inferrer                                                       *)
(***************************************************************************)

DATATYPE_MAP(name) ==
    CASE name = "text" -> "str"
      [] name = "area" -> "str"
      [] name = "password" -> "str"
      [] name = "email" -> "str"
      [] name = "date" -> "date"
      [] name = "datetime" -> "datetime"
      [] name = "time" -> "time"
      [] name = "integer" -> "int"
      [] name = "number" -> "float"
      [] name = "currency" -> "float"
      [] name = "boolean" -> "bool"
      [] name = "yesno" -> "bool"
      [] name = "noyes" -> "bool"
      [] name = "range" -> "float"
      [] name = "object" -> "dict"
      [] name = "choices" -> "list"
      [] name = "dropdown" -> "Any"
      [] name = "multiselect" -> "list"
      [] name = "combobox" -> "list"
      [] name = "file" -> "str"
      [] name = "files" -> "list"

DatatypeNames ==
    << "text", "area", "password", "email", "date", "datetime",
       "time", "integer", "number", "currency", "boolean", "yesno",
       "noyes", "range", "object", "choices", "dropdown", "multiselect",
       "combobox", "file", "files" >>

\* DATATYPE_MAP.get(datatype, 'Any'), for a hashable datatype
DatatypeOf(datatype) ==
    IF datatype.kind = "str"
       /\ \E i \in DOMAIN DatatypeNames : Chars(DatatypeNames[i]) = datatype.s
    THEN DATATYPE_MAP(DatatypeNames[
             CHOOSE i \in DOMAIN DatatypeNames : Chars(DatatypeNames[i]) = datatype.s])
    ELSE "Any"

\* hash(value) raises TypeError for a list and for a mapping.
Hashable(v) == v.kind \notin {"list", "map"}

SyntaxError == [node |-> "SyntaxError"]
Constant(type) == [node |-> "Constant", type |-> type]
Node(class) == [node |-> class]

\* What ast.parse makes of the expressions the code texts are written with.
ParseExpression(e) ==
    CASE e = <<"1">> -> Constant("int")
      [] e = <<"'", "a", "'">> -> Constant("str")
      [] e = <<"T", "r", "u", "e">> -> Constant("bool")
      [] e = <<"N", "o", "n", "e">> -> Constant("NoneType")
      [] e = <<"[", "]">> -> Node("List")
      [] e = <<"{", "}">> -> Node("Dict")
      [] e = <<"(", ")">> -> Node("Tuple")
      [] e = <<"{", "1", "}">> -> Node("Set")
      [] e = <<"f", "(", ")">> -> Node("Call")
      [] e = <<"(">> -> SyntaxError

_get_type_from_ast_node(node) ==
    CASE node.node = "Constant" -> node.type
      [] node.node \in {"List", "ListComp"} -> "list"
      [] node.node \in {"Dict", "DictComp"} -> "dict"
      [] node.node = "Tuple" -> "tuple"
      [] node.node = "Set" -> "set"
      [] OTHER -> "Any"

NameChars == {UpperCase[i] : i \in DOMAIN UpperCase}
                 \cup {LowerCase[i] : i \in DOMAIN LowerCase} \cup {"_"}

\* What ast.parse makes of one line of code: nothing for a blank line or a
\* comment, a SyntaxError for an indented line, an assignment `name=expr`
\* to a Name target, or an expression statement.
ParseLine(line) ==
    LET text == RStrip(line)
    IN  IF text = <<>> \/ StartsWith(LStrip(text), <<"#">>) THEN <<>>
        ELSE IF text[1] \in Whitespace THEN <<SyntaxError>>
        ELSE IF \E p \in 2..Len(text) :
                    /\ text[p] = "="
                    /\ \A q \in 1..(p - 1) : text[q] \in NameChars
        THEN LET p == CHOOSE p \in 2..Len(text) :
                          /\ text[p] = "="
                          /\ \A q \in 1..(p - 1) : text[q] \in NameChars
                 value == ParseExpression(SubSeq(text, p + 1, Len(text)))
             IN  IF value = SyntaxError THEN <<SyntaxError>>
                 ELSE <<[node |-> "Assign", target |-> SubSeq(text, 1, p - 1),
                         value |-> value]>>
        ELSE IF ParseExpression(text) = SyntaxError THEN <<SyntaxError>>
        ELSE <<[node |-> "Expr"]>>

\* ast.parse(code): the module with its statements in source order, the
\* order ast.walk visits them in, or SyntaxError when a line does not parse.
RECURSIVE ParseLines(_, _, _)
ParseLines(lines, i, statements) ==
    IF i > Len(lines) THEN [node |-> "Module", body |-> statements]
    ELSE LET parsed == ParseLine(lines[i])
         IN  IF parsed = <<SyntaxError>> THEN SyntaxError
             ELSE ParseLines(lines, i + 1, statements \o parsed)

AstParse(code) == ParseLines(SplitLines(code), 1, <<>>)

\* variables[name] = type_ on a dict, which keeps insertion order.
DictSet(variables, name, type_) ==
    IF \E i \in DOMAIN variables : variables[i].name = name
    THEN [i \in DOMAIN variables |->
             IF variables[i].name = name THEN [name |-> name, type |-> type_]
             ELSE variables[i]]
    ELSE Append(variables, [name |-> name, type |-> type_])

RECURSIVE AssignLoop(_, _, _)
AssignLoop(statements, i, variables) ==
    IF i > Len(statements) THEN variables
    ELSE IF statements[i].node = "Assign"
         THEN AssignLoop(statements, i + 1,
                         DictSet(variables, statements[i].target,
                                 _get_type_from_ast_node(statements[i].value)))
         ELSE AssignLoop(statements, i + 1, variables)

_extract_variables_from_code(code) ==
    LET tree == AstParse(code)
    IN  IF tree.node = "SyntaxError" THEN <<>> ELSE AssignLoop(tree.body, 1, <<>>)

\* dict.update, item by item
RECURSIVE DictUpdate(_, _, _)
DictUpdate(variables, items, i) ==
    IF i > Len(items) THEN variables
    ELSE DictUpdate(DictSet(variables, items[i].name, items[i].type), items, i + 1)

\* yaml.load(chunk) or {} for every chunk that decodes.
RECURSIVE IterBlocks(_, _)
IterBlocks(chunks, i) ==
    IF i > Len(chunks) THEN <<>>
    ELSE LET loaded == YamlLoad(chunks[i])
         IN  (IF loaded.kind = "error" THEN <<>> ELSE <<OrEmpty(loaded)>>)
                 \o IterBlocks(chunks, i + 1)

iter_blocks(doc) == IterBlocks(_split_blocks(doc), 1)

\* Pass 1 of extract_variables. `'code' in block` raises TypeError for a
\* number, block['code'] raises TypeError unless the block is a mapping.
RECURSIVE CodePass(_, _, _)
CodePass(blocks, i, variables) ==
    IF i > Len(blocks) THEN Returned(variables)
    ELSE LET block == blocks[i]
         IN  IF ~Iterable(block) THEN Raised("TypeError")
             ELSE IF ~PyIn("code", block) THEN CodePass(blocks, i + 1, variables)
             ELSE IF block.kind # "map" THEN Raised("TypeError")
             ELSE IF Item(block, "code").kind = "str"
             THEN CodePass(blocks, i + 1,
                           DictUpdate(variables,
                                      _extract_variables_from_code(Item(block, "code").s), 1))
             ELSE CodePass(blocks, i + 1, variables)

\* The loop over one block's fields. DATATYPE_MAP.get raises TypeError for
\* a datatype that cannot be hashed.
RECURSIVE FieldLoop(_, _, _)
FieldLoop(fields, i, variables) ==
    IF i > Len(fields) THEN Returned(variables)
    ELSE LET field == fields[i]
         IN  IF field.kind = "map" /\ Truthy(field) /\ field.vals[1].kind = "str"
             THEN LET variable_name == field.vals[1].s
                      datatype == GetOr(field, "datatype", Str(Chars("text")))
                  IN  IF ~Hashable(datatype) THEN Raised("TypeError")
                      ELSE FieldLoop(fields, i + 1,
                                     DictSet(variables, variable_name, DatatypeOf(datatype)))
             ELSE FieldLoop(fields, i + 1, variables)

\* Pass 2 of extract_variables.
RECURSIVE FieldPass(_, _, _)
FieldPass(blocks, i, variables) ==
    IF i > Len(blocks) THEN Returned(variables)
    ELSE LET block == blocks[i]
         IN  IF ~Iterable(block) THEN Raised("TypeError")
             ELSE IF ~PyIn("fields", block) THEN FieldPass(blocks, i + 1, variables)
             ELSE IF block.kind # "map" THEN Raised("TypeError")
             ELSE IF Item(block, "fields").kind = "list"
             THEN LET updated == FieldLoop(Item(block, "fields").items, 1, variables)
                  IN  IF updated.status = "raised" THEN updated
                      ELSE FieldPass(blocks, i + 1, updated.value)
             ELSE FieldPass(blocks, i + 1, variables)

\* sorted(result, key=lambda v: v['name']), an insertion at a time
RECURSIVE InsertByName(_, _)
InsertByName(sorted, v) ==
    IF sorted = <<>> THEN <<v>>
    ELSE IF StrLess(v.name, Head(sorted).name) THEN <<v>> \o sorted
    ELSE <<Head(sorted)>> \o InsertByName(Tail(sorted), v)

RECURSIVE SortLoop(_, _, _)
SortLoop(variables, i, sorted) ==
    IF i > Len(variables) THEN sorted
    ELSE SortLoop(variables, i + 1, InsertByName(sorted, variables[i]))

extract_variables(doc) ==
    LET all_blocks == iter_blocks(doc)
        from_code == CodePass(all_blocks, 1, <<>>)
    IN  IF from_code.status = "raised" THEN from_code
        ELSE LET from_fields == FieldPass(all_blocks, 1, from_code.value)
             IN  IF from_fields.status = "raised" THEN from_fields
                 ELSE Returned(SortLoop(from_fields.value, 1, <<>>))

(***************************************************************************)
(* The entry points                                                        *)
(***************************************************************************)

NoLinter == [mode |-> "absent", errors |-> <<>>]
NoResult == [status |-> "none"]

\* _split_blocks(document)
SplitDocument ==
    /\ pc = "start"
    /\ pc' = "split"
    /\ result' = Returned(_split_blocks(document))
    /\ UNCHANGED <<document, other, decoded, linter>>

\* The text formed by a, a separator line, then b.
JoinedBySeparator(a, b) == a \o <<"\n">> \o SEPARATOR \o <<"\n">> \o b

\* _split_blocks of the two documents joined by a separator line
SplitConcatenation ==
    /\ pc = "start"
    /\ pc' = "split_joined"
    /\ result' = Returned(_split_blocks(JoinedBySeparator(document, other)))
    /\ UNCHANGED <<document, other, decoded, linter>>

\* analyze_blocks(document)
Analyze ==
    /\ pc = "start"
    /\ pc' = "analyze"
    /\ result' = analyze_blocks(document)
    /\ UNCHANGED <<document, other, decoded, linter>>

\* validate_document(document)
Validate ==
    /\ pc = "start"
    /\ pc' = "validate"
    /\ result' = validate_document(document, linter)
    /\ UNCHANGED <<document, other, decoded, linter>>

\* extract_variables(document)
ExtractVariables ==
    /\ pc = "start"
    /\ pc' = "extract_variables"
    /\ result' = extract_variables(document)
    /\ UNCHANGED <<document, other, decoded, linter>>

(***************************************************************************)
(* Inputs                                                                  *)
(***************************************************************************)

RECURSIVE SeqsUpTo(_, _)
SeqsUpTo(S, n) ==
    IF n = 0 THEN {<<>>}
    ELSE LET shorter == SeqsUpTo(S, n - 1)
         IN  shorter \cup {Append(s, x) : s \in shorter, x \in S}

\* A place between two separator lines that holds no block.
Gap == [kind |-> "gap"]

RECURSIVE JoinSegments(_)
JoinSegments(texts) ==
    IF texts = <<>> THEN <<>>
    ELSE IF Len(texts) = 1 THEN texts[1]
    ELSE JoinedBySeparator(texts[1], JoinSegments(Tail(texts)))

\* The document written from a list of slots: block i is the text
\* BlockText[i], a gap is empty, and a separator line stands between two
\* neighbours. Leading, trailing and consecutive separators come from gaps.
DocumentOf(slots) ==
    JoinSegments([i \in DOMAIN slots |->
                     IF slots[i] = Gap THEN <<>> ELSE <<BlockText[i]>>])

\* ---- documents of the splitter: texts written character by character ----

MaxSplitLines == 3

MaxOtherLines == 2

\* Blank and whitespace-only lines, bare and padded separators, a
\* near-separator and content with surrounding whitespace.
SplitLineChoices ==
    { <<>>, <<" ">>, <<"-", "-", "-">>, <<" ", "-", "-", "-", "\t">>,
      <<"-", "-">>, <<" ", "a", " ">> }

SplitTexts(n) == {JoinLines(ls) : ls \in SeqsUpTo(SplitLineChoices, n)}

InitSplit ==
    /\ document \in SplitTexts(MaxSplitLines)
    /\ other \in SplitTexts(MaxOtherLines)
    /\ decoded = <<>>
    /\ linter = NoLinter
    /\ pc = "start"
    /\ result = NoResult

NextSplit == SplitDocument \/ SplitConcatenation

SpecSplit == InitSplit /\ [][NextSplit]_vars

\* ---- documents of the validator ----

MaxBlocks == 3

\* {question: Hi}
QuestionBlock == Map(<<"question">>, <<Str(<<"H", "i">>)>>)
\* {interview_order: {mandatory: true, code: "a"}}
MandatoryTrue ==
    Map(<<"interview_order">>,
        <<Map(<<"mandatory", "code">>, <<Bool(TRUE), Str(<<"a">>)>>)>>)
\* {interview_order: {mandatory: " Yes "}}
MandatoryYes ==
    Map(<<"interview_order">>,
        <<Map(<<"mandatory">>, <<Str(<<" ", "Y", "e", "s", " ">>)>>)>>)
\* {interview_order: {mandatory: 1}}
MandatoryOne == Map(<<"interview_order">>, <<Map(<<"mandatory">>, <<Number(1)>>)>>)
\* {interview_order: {mandatory: false}}
MandatoryFalse == Map(<<"interview_order">>, <<Map(<<"mandatory">>, <<Bool(FALSE)>>)>>)
\* {interview_order: {mandatory: "no"}}
MandatoryNo ==
    Map(<<"interview_order">>, <<Map(<<"mandatory">>, <<Str(<<"n", "o">>)>>)>>)
\* {interview_order: {code: "a"}}
OrderWithoutFlag == Map(<<"interview_order">>, <<Map(<<"code">>, <<Str(<<"a">>)>>)>>)
\* {mandatory: true, code: "x=1"}
MandatoryCode ==
    Map(<<"mandatory", "code">>, <<Bool(TRUE), Str(<<"x", "=", "1">>)>>)
\* {interview_order: foo}
OrderString == Map(<<"interview_order">>, <<Str(<<"f", "o", "o">>)>>)
\* {interview_order: 5}
OrderNumber == Map(<<"interview_order">>, <<Number(5)>>)
\* hello
ScalarSegment == Str(<<"h", "e", "l", "l", "o">>)
\* [a, b]
ListSegment == List(<<Str(<<"a">>), Str(<<"b">>)>>)
\* {question: Hi
Undecodable == YamlError

WellFormedBlocks ==
    { QuestionBlock, MandatoryTrue, MandatoryYes, MandatoryOne, MandatoryFalse,
      MandatoryNo, OrderWithoutFlag, MandatoryCode }

MalformedBlocks ==
    { OrderString, OrderNumber, ScalarSegment, ListSegment }

ValidateBlocks == WellFormedBlocks \cup MalformedBlocks \cup {Undecodable}

\* What the linter does: the module is not installed, find_errors returns
\* one error, or find_errors raises.
Linters ==
    { NoLinter,
      [mode |-> "returns", errors |-> <<Issue("dayamlchecker error")>>],
      [mode |-> "raises", errors |-> <<>>] }

Init ==
    /\ \E slots \in SeqsUpTo(ValidateBlocks \cup {Gap}, MaxBlocks) :
           /\ document = DocumentOf(slots)
           /\ decoded = slots
    /\ other = <<>>
    /\ linter \in Linters
    /\ pc = "start"
    /\ result = NoResult

Next == Validate

Spec == Init /\ [][Next]_vars

InitAnalyze ==
    /\ \E slots \in SeqsUpTo(ValidateBlocks \cup {Gap}, MaxBlocks) :
           /\ document = DocumentOf(slots)
           /\ decoded = slots
    /\ other = <<>>
    /\ linter = NoLinter
    /\ pc = "start"
    /\ result = NoResult

NextAnalyze == Analyze

SpecAnalyze == InitAnalyze /\ [][NextAnalyze]_vars

\* ---- documents of the classifier: one block, its keys in any order ----

MaxKeys == 3

TypeKeys == {"question", "code", "order", "images", "id", "fields"}

\* {question: Hi, code: "x=1", order: [], images: [], id: a, fields: []}
KeyValue(key) ==
    CASE key = "question" -> Str(<<"H", "i">>)
      [] key = "code" -> Str(<<"x", "=", "1">>)
      [] key = "id" -> Str(<<"a">>)
      [] OTHER -> List(<<>>)

KeyOrders ==
    {keys \in SeqsUpTo(TypeKeys, MaxKeys) :
        \A i, j \in DOMAIN keys : i # j => keys[i] # keys[j]}

InitType ==
    /\ \E keys \in KeyOrders :
           decoded = <<Map(keys, [i \in DOMAIN keys |-> KeyValue(keys[i])])>>
    /\ document = DocumentOf(decoded)
    /\ other = <<>>
    /\ linter = NoLinter
    /\ pc = "start"
    /\ result = NoResult

SpecType == InitType /\ [][NextAnalyze]_vars

\* ---- documents of the order extractor: one block, its code in lines ----

MaxCodeLines == 3

\* A blank line, a step with surrounding whitespace, a bare step, a comment
\* and an indented comment.
CodeLineChoices ==
    { <<>>, <<" ", "a", " ">>, <<"b">>, <<"#", "b">>, <<" ", "#">> }

CodeTexts == {JoinLines(ls) : ls \in SeqsUpTo(CodeLineChoices, MaxCodeLines)}

OrderBlocks ==
    \* {interview_order: {mandatory: true, code: <text>}}
    { Map(<<"interview_order">>,
          <<Map(<<"mandatory", "code">>, <<Bool(TRUE), Str(t)>>)>>) : t \in CodeTexts }
    \* {code: <text>}
    \cup { Map(<<"code">>, <<Str(t)>>) : t \in CodeTexts }
    \* {interview_order: {code: 5}}, {interview_order: {mandatory: true}},
    \* {interview_order: "a", code: "a"}
    \cup { Map(<<"interview_order">>, <<Map(<<"code">>, <<Number(5)>>)>>),
           Map(<<"interview_order">>, <<Map(<<"mandatory">>, <<Bool(TRUE)>>)>>),
           Map(<<"interview_order", "code">>, <<Str(<<"a">>), Str(<<"a">>)>>) }

InitOrder ==
    /\ \E block \in OrderBlocks : decoded = <<block>>
    /\ document = DocumentOf(decoded)
    /\ other = <<>>
    /\ linter = NoLinter
    /\ pc = "start"
    /\ result = NoResult

SpecOrder == InitOrder /\ [][NextAnalyze]_vars

\* ---- documents of the variable inferrer ----

\* {code: "x=1"}
CodeInt == Map(<<"code">>, <<Str(<<"x", "=", "1">>)>>)
\* {code: "y='a'\nx=[]\nf()"}
CodeTwo ==
    Map(<<"code">>,
        <<Str(<<"y", "=", "'", "a", "'", "\n", "x", "=", "[", "]", "\n", "f", "(", ")">>)>>)
\* {code: "x=("}
CodeBroken == Map(<<"code">>, <<Str(<<"x", "=", "(">>)>>)
\* {code: 5}
CodeNumber == Map(<<"code">>, <<Number(5)>>)
\* {fields: [{Name: x}]}
FieldsDefault ==
    Map(<<"fields">>, <<List(<<Map(<<"Name">>, <<Str(<<"x">>)>>)>>)>>)
\* {fields: [{Name: x, datatype: integer}, {Age: 5}]}
FieldsInteger ==
    Map(<<"fields">>,
        <<List(<<Map(<<"Name", "datatype">>, <<Str(<<"x">>), Str(Chars("integer"))>>),
                 Map(<<"Age">>, <<Number(5)>>)>>)>>)
\* {fields: [note, {Born: y, datatype: date}, {Name: B}]}
FieldsDate ==
    Map(<<"fields">>,
        <<List(<<Str(<<"n", "o", "t", "e">>),
                 Map(<<"Born", "datatype">>, <<Str(<<"y">>), Str(Chars("date"))>>),
                 Map(<<"Name">>, <<Str(<<"B">>)>>)>>)>>)
\* {fields: [{Name: z, datatype: 7}]}
FieldsNumberType ==
    Map(<<"fields">>,
        <<List(<<Map(<<"Name", "datatype">>, <<Str(<<"z">>), Number(7)>>)>>)>>)
\* {fields: [{Name: x, datatype: [a]}]}
FieldsListType ==
    Map(<<"fields">>,
        <<List(<<Map(<<"Name", "datatype">>,
                     <<Str(<<"x">>), List(<<Str(<<"a">>)>>)>>)>>)>>)
\* code
ScalarCode == Str(Chars("code"))
\* 5
NumberSegment == Number(5)

VariableBlocks ==
    { CodeInt, CodeTwo, CodeBroken, CodeNumber, FieldsDefault, FieldsInteger,
      FieldsDate, FieldsNumberType, FieldsListType, ScalarCode, ScalarSegment,
      NumberSegment, Undecodable }

InitVariables ==
    /\ \E slots \in SeqsUpTo(VariableBlocks \cup {Gap}, MaxBlocks) :
           /\ document = DocumentOf(slots)
           /\ decoded = slots
    /\ other = <<>>
    /\ linter = NoLinter
    /\ pc = "start"
    /\ result = NoResult

NextVariables == ExtractVariables

SpecVariables == InitVariables /\ [][NextVariables]_vars

\* ---- documents of the vocabulary check: analysed and validated ----

\* {id: a}
IdOnly == Map(<<"id">>, <<Str(<<"a">>)>>)
\* {title: Hi, fields: []}
UnknownKeys == Map(<<"title", "fields">>, <<Str(<<"H", "i">>), List(<<>>)>>)
\* {images: [], order: [], id: a}
LateVocabularyKeys ==
    Map(<<"images", "order", "id">>, <<List(<<>>), List(<<>>), Str(<<"a">>)>>)

VocabularyBlocks ==
    { QuestionBlock, OrderWithoutFlag, IdOnly, UnknownKeys, LateVocabularyKeys,
      ScalarCode, ListSegment, Undecodable }

InitVocabulary ==
    /\ \E slots \in SeqsUpTo(VocabularyBlocks \cup {Gap}, MaxBlocks) :
           /\ document = DocumentOf(slots)
           /\ decoded = slots
    /\ other = <<>>
    /\ linter \in Linters
    /\ pc = "start"
    /\ result = NoResult

NextVocabulary == Analyze \/ Validate

SpecVocabulary == InitVocabulary /\ [][NextVocabulary]_vars

(***************************************************************************)
(* Properties of validate_document                                         *)
(***************************************************************************)

\* The decoded segments of the document, in document order.
Segments == SelectSeq(decoded, LAMBDA v : v # Gap)

Count(seq, x) == Cardinality({i \in DOMAIN seq : seq[i] = x})

Max(a, b) == IF a > b THEN a ELSE b

\* C1: validate never fails: for every document, segments that decode to a
\* non-mapping value and non-mapping interview_order values included,
\* validate_document returns a list of issues and never raises.
ValidateNeverRaises ==
    pc = "validate" => result.status = "returned"

\* The structural checks on their own: validate_document with no linter
\* installed.
StructuralOutcome == validate_document(document, NoLinter)

\* C3 as stated: when the linter is unavailable or raises, validate_document
\* returns exactly the issues of its own structural checks, the same list
\* as with no linter installed.
LinterFailureAddsNothing ==
    (pc = "validate" /\ linter.mode \in {"absent", "raises"}) =>
        result = StructuralOutcome

\* C3 as amended: an unavailable linter adds nothing; a linter that raises
\* adds exactly one issue, the report of its failure, put before the issues
\* of the structural checks, and changes nothing else of the outcome.
LinterFailureAddsOneIssue ==
    pc = "validate" =>
        /\ linter.mode = "absent" => result = StructuralOutcome
        /\ linter.mode = "raises" =>
              IF StructuralOutcome.status = "returned"
              THEN result = Returned(<<LinterFailed>> \o StructuralOutcome.value)
              ELSE result = StructuralOutcome

\* The linter raised on a document whose structural checks report an issue
\* of their own.
LinterFailureWitness ==
    /\ pc = "validate"
    /\ linter.mode = "raises"
    /\ result.status = "returned"
    /\ Len(result.value) = 2
    /\ result.value[2] = DuplicateMandatory

\* Truthy-coercion as the specification words it: boolean true, one of the
\* strings true, yes, 1, on (trimmed, in any case), or a non-zero number.
CoercesToTrue(v) ==
    \/ v.kind = "bool" /\ v.b
    \/ v.kind = "str" /\ \E word \in {"true", "yes", "1", "on"} :
                              Lower(Strip(v.s)) = Chars(word)
    \/ v.kind = "number" /\ v.n # 0

\* The block declares interview_order.mandatory truthy.
DeclaresMandatory(v) ==
    /\ v.kind = "map"
    /\ HasKey(v, "interview_order")
    /\ Item(v, "interview_order").kind = "map"
    /\ CoercesToTrue(Get(Item(v, "interview_order"), "mandatory"))

MandatoryCount == Cardinality({i \in DOMAIN Segments : DeclaresMandatory(Segments[i])})

EverySegmentDecodes == \A i \in DOMAIN Segments : Segments[i].kind # "error"

\* How often the call reported the issue: a call that raised reported
\* nothing.
TimesReported(issue) ==
    IF result.status = "returned" THEN Count(result.value, issue) ELSE 0

\* C5: for a document in which every segment decodes and k blocks declare
\* interview_order.mandatory truthy, validate reports "Only one mandatory
\* interview_order block is allowed." exactly max(0, k - 1) times.
OneIssuePerExtraMandatory ==
    (pc = "validate" /\ EverySegmentDecodes) =>
        TimesReported(DuplicateMandatory) = Max(0, MandatoryCount - 1)

\* The same count on the documents whose segments all decode to mappings
\* with a mapping (or no) interview_order.
OneIssuePerExtraMandatoryWellFormed ==
    (pc = "validate" /\ \A i \in DOMAIN Segments : Segments[i] \in WellFormedBlocks) =>
        /\ result.status = "returned"
        /\ Count(result.value, DuplicateMandatory) = Max(0, MandatoryCount - 1)

ReportsDecodeFailure(issues) ==
    \E i \in DOMAIN issues :
        issues[i].text \in {"Failed to parse YAML segment at index", "Invalid YAML block"}

\* C6: for a document where one segment fails to decode and two other
\* segments each declare interview_order.mandatory truthy, validate reports
\* the duplicate-mandatory issue for the second mandatory block, in
\* addition to the issue for the undecodable segment.
DecodeFailureKeepsSiblingChecks ==
    (/\ pc = "validate"
     /\ Count(Segments, Undecodable) = 1
     /\ MandatoryCount = 2
     /\ Len(Segments) = 3) =>
        /\ result.status = "returned"
        /\ ReportsDecodeFailure(result.value)
        /\ Count(result.value, DuplicateMandatory) >= 1

(***************************************************************************)
(* Properties of _split_blocks and analyze_blocks                          *)
(***************************************************************************)

\* C9: splitting A, a separator line, then B yields the segments of A
\* followed by the segments of B.
SplitDistributes ==
    pc = "split_joined" =>
        result = Returned(_split_blocks(document) \o _split_blocks(other))

\* Both documents contribute segments, and the second one comes with a
\* separator line of its own.
SplitDistributesWitness ==
    /\ pc = "split_joined"
    /\ Len(_split_blocks(document)) = 2
    /\ Len(_split_blocks(other)) = 1
    /\ Len(SplitLines(other)) = 2
    /\ Len(result.value) = 3

IsSeparatorLine(line) == Strip(line) = SEPARATOR
IsContentLine(line) == Strip(line) # <<>> /\ ~IsSeparatorLine(line)

\* The number of non-empty segments obtained by splitting the text on its
\* `---` lines: the content lines that no earlier content line reaches
\* without crossing a separator line.
NonEmptySegmentCount(text) ==
    LET lines == SplitLines(text)
    IN  Cardinality(
            {i \in DOMAIN lines :
                /\ IsContentLine(lines[i])
                /\ \A j \in 1..(i - 1) :
                       IsContentLine(lines[j]) =>
                           \E k \in (j + 1)..(i - 1) : IsSeparatorLine(lines[k])})

\* C4: when analyze succeeds, the positions of the analyses are 0, 1, ...,
\* n - 1 in list order, n the number of non-empty segments of the document;
\* an empty segment gets no analysis.
PositionsAreSegmentOrder ==
    (pc = "analyze" /\ result.status = "returned") =>
        /\ Len(result.value) = NonEmptySegmentCount(document)
        /\ \A i \in DOMAIN result.value : result.value[i].position = i - 1

\* Two blocks with an empty segment between them.
PositionsWitness ==
    /\ pc = "analyze"
    /\ result.status = "returned"
    /\ Len(decoded) = 3
    /\ decoded[2] = Gap
    /\ Len(result.value) = 2
    /\ result.value[2].position = 1

\* The earliest entry of the vocabulary among the keys, `code` if none is.
EarliestVocabularyEntry(keys) ==
    LET present == {i \in DOMAIN BLOCK_TYPES :
                       \E j \in DOMAIN keys : keys[j] = BLOCK_TYPES[i]}
    IN  IF present = {} THEN "code"
        ELSE BLOCK_TYPES[CHOOSE i \in present : \A other_i \in present : i <= other_i]

\* C7: the type of a decoded mapping is the earliest entry of the
\* vocabulary that is one of its top-level keys, whatever the order of the
\* keys and however many vocabulary keys it has; `code` when it has none.
TypeIsEarliestVocabularyEntry ==
    (pc = "analyze" /\ result.status = "returned") =>
        \A i \in DOMAIN result.value :
            result.value[i].type = EarliestVocabularyEntry(Segments[i].keys)

\* A block whose keys are written latest vocabulary entry first.
TypeWitness ==
    /\ pc = "analyze"
    /\ result.status = "returned"
    /\ decoded[1].keys = <<"order", "id", "question">>
    /\ result.value[1].type = "question"

\* The lines of the code that are steps, trimmed, in source order.
StepLines(text) ==
    LET lines == SplitLines(text)
        trimmed == [i \in DOMAIN lines |-> Strip(lines[i])]
    IN  SelectSeq(trimmed, LAMBDA line : line # <<>> /\ Head(line) # "#")

\* C10: for a block whose interview_order is a mapping with a string code,
\* order_items is the code's lines that are non-empty after trimming and do
\* not start with `#`, each trimmed, in source order, duplicates kept; for
\* any other block order_items is empty.
OrderItemsAreStepLines ==
    (pc = "analyze" /\ result.status = "returned") =>
        \A i \in DOMAIN result.value :
            LET payload == Get(Segments[i], "interview_order")
            IN  IF payload.kind = "map" /\ Get(payload, "code").kind = "str"
                THEN result.value[i].order_items = StepLines(Get(payload, "code").s)
                ELSE result.value[i].order_items = <<>>

\* An ordering block whose code repeats a step around a comment.
OrderItemsWitness ==
    /\ pc = "analyze"
    /\ result.status = "returned"
    /\ Get(decoded[1], "interview_order").kind = "map"
    /\ Get(Get(decoded[1], "interview_order"), "code").kind = "str"
    /\ Len(SplitLines(Get(Get(decoded[1], "interview_order"), "code").s)) = 3
    /\ result.value[1].order_items = <<<<"a">>, <<"a">>>>

\* C11: every analysis analyze_blocks produces has a type of the vocabulary,
\* the fallback `code` included, for every document; so validate_document
\* never reports an "Unsupported block type" issue.
TypesAreInVocabulary ==
    /\ (pc = "analyze" /\ result.status = "returned") =>
           \A i \in DOMAIN result.value : IsBlockType(result.value[i].type)
    /\ (pc = "validate" /\ result.status = "returned") =>
           \A i \in DOMAIN result.value :
               result.value[i].text # "Unsupported block type"

\* A validated document of two blocks with no vocabulary key, both analysed
\* as `code`.
TypesInVocabularyWitness ==
    /\ pc = "validate"
    /\ decoded = <<IdOnly, UnknownKeys>>
    /\ result.status = "returned"
    /\ analyze_blocks(document).status = "returned"
    /\ \A i \in 1..2 : analyze_blocks(document).value[i].type = "code"

(***************************************************************************)
(* Properties of extract_variables                                         *)
(***************************************************************************)

\* C2: extractVariables never fails: for every document extract_variables
\* returns a list of variables and never raises; an undecodable segment, a
\* non-mapping segment, unparsable code and a field entry whose name or
\* datatype is not a string are skipped.
ExtractNeverRaises ==
    pc = "extract_variables" => result.status = "returned"

\* The names a block's code assigns: the targets of its assignments when
\* the block is a mapping with a string `code` that parses.
AssignedIn(block) ==
    IF block.kind = "map" /\ Get(block, "code").kind = "str"
       /\ AstParse(Get(block, "code").s).node = "Module"
    THEN LET body == AstParse(Get(block, "code").s).body
         IN  {body[i].target : i \in {j \in DOMAIN body : body[j].node = "Assign"}}
    ELSE {}

\* The field entries of a block: the non-empty mappings of its `fields`
\* list whose first value is a string.
FieldEntries(block) ==
    IF block.kind = "map" /\ Get(block, "fields").kind = "list"
    THEN LET fields == Get(block, "fields").items
         IN  {fields[i] : i \in {j \in DOMAIN fields :
                                    /\ fields[j].kind = "map"
                                    /\ fields[j].keys # <<>>
                                    /\ fields[j].vals[1].kind = "str"}}
    ELSE {}

AssignedNames == UNION {AssignedIn(Segments[i]) : i \in DOMAIN Segments}

AllFieldEntries == UNION {FieldEntries(Segments[i]) : i \in DOMAIN Segments}

DeclaredNames == {field.vals[1].s : field \in AllFieldEntries}

\* The types the field entries of a name map to (`text` by default).
DeclaredTypes(name) ==
    {DatatypeOf(GetOr(field, "datatype", Str(Chars("text")))) :
        field \in {f \in AllFieldEntries : f.vals[1].s = name}}

\* The types the result reports for a name; none when the call raised.
ReportedTypes(name) ==
    IF result.status = "returned"
    THEN {result.value[i].type : i \in {j \in DOMAIN result.value :
                                            result.value[j].name = name}}
    ELSE {}

\* C8: a name both assigned in some block's code and declared by a field
\* entry is reported with the type mapped from the field's datatype,
\* whatever the order of the two blocks; the returned list has one entry per
\* distinct name and is sorted ascending by name.
FieldDeclarationsWin ==
    pc = "extract_variables" =>
        /\ \A name \in AssignedNames \cap DeclaredNames :
               /\ ReportedTypes(name) # {}
               /\ ReportedTypes(name) \subseteq DeclaredTypes(name)
        /\ result.status = "returned" =>
               \A i, j \in DOMAIN result.value :
                   i < j => StrLess(result.value[i].name, result.value[j].name)

\* The same on the documents for which extract_variables returns.
FieldDeclarationsWinWhenReturned ==
    (pc = "extract_variables" /\ result.status = "returned") =>
        /\ \A name \in AssignedNames \cap DeclaredNames :
               /\ ReportedTypes(name) # {}
               /\ ReportedTypes(name) \subseteq DeclaredTypes(name)
        /\ {result.value[i].name : i \in DOMAIN result.value}
               = AssignedNames \cup DeclaredNames
        /\ \A i, j \in DOMAIN result.value :
               i < j => StrLess(result.value[i].name, result.value[j].name)

====
